---- MODULE Spec2Model ----
(***************************************************************************)
(* GradientButton (src/src/index.tsx): a function component from a        *)
(* property bag to a view tree.  The model keeps the caller's property    *)
(* bag (whose objects the component can reach by reference), the tree the *)
(* latest render returned, the console.warn calls and the error of that   *)
(* render, and what the latest press on the touchable invoked.            *)
(*                                                                         *)
(* JavaScript values are encoded as follows (record fields are written in *)
(* alphabetical order throughout).                                         *)
(*   property bag   a function from the names the caller passed to their *)
(*                  values; a name the caller did not pass is not in the *)
(*                  DOMAIN (it destructures to undefined)                 *)
(*   style value    a record [entries, frozen, items, kind]:              *)
(*                  kind "object": entries is the sequence of own         *)
(*                  enumerable properties in insertion order, frozen says *)
(*                  whether Object.freeze was applied (StyleSheet.create  *)
(*                  does so in development builds);                       *)
(*                  kind "array": items is the sequence of style objects; *)
(*                  kind "falsy": false / null; kind "undefined"          *)
(*   colors value   a record [isArray, items], items a sequence of        *)
(*                  [type, val] with type the result of typeof            *)
(***************************************************************************)
EXTENDS Integers, Sequences, FiniteSets, TLC

\* TLC keeps the fields of a record in the order in which their names first
\* occur in the module.  Naming them here once, alphabetically, gives every
\* record below that order as it is written, so that no record is reordered
\* while the model is being checked.
FieldNames ==
    [accessibilityHint |-> "", accessibilityLabel |-> "",
     accessibilityRole |-> "", activeOpacity |-> "", button |-> "",
     buttonContent |-> "", buttonText |-> "", child |-> "", color |-> "",
     colors |-> "", disabled |-> "", entries |-> "", frozen |-> "",
     gradientColors |-> "", innerButton |-> "", innerStyle |-> "",
     isArray |-> "", items |-> "",
     key |-> "", kind |-> "", maskContainer |-> "", maskStyle |-> "",
     of |-> "", onPress |-> "", outerStyle |-> "", prop |-> "", props |-> "",
     size |-> "", style |-> "", text |-> "", textStyle |-> "", thrown |-> "",
     touchable |-> "", tree |-> "", type |-> "", val |-> "", value |-> "",
     warnings |-> ""]

VARIABLES
    given,      \* the property bag as the caller handed it to the latest render
    invoked,    \* the handler the latest press invoked since that render
    pressed,    \* whether the touchable was pressed since that render
    props,      \* the caller's property bag as the latest render left it
    rendered,   \* whether the component has been rendered at all
    thrown,     \* the error the latest render threw
    tree,       \* the element tree the latest render returned
    warnings    \* the console.warn calls of the latest render, in order

vars == <<given, invoked, pressed, props, rendered, thrown, tree, warnings>>

(***************************************************************************)
(* Bounds of the model.                                                    *)
(***************************************************************************)
\* most properties in one caller-supplied style object
MaxProps == 2
\* most elements in a caller-supplied style array
MaxArr == 2
\* longest colors array the caller passes
MaxColors == 3

(***************************************************************************)
(* Encoding of style values.                                               *)
(***************************************************************************)
Entry(k, v) == [key |-> k, value |-> v]

Obj(entries, frozen) ==
    [entries |-> entries, frozen |-> frozen, items |-> <<>>, kind |-> "object"]

Arr(items) ==
    [entries |-> <<>>, frozen |-> FALSE, items |-> items, kind |-> "array"]

Falsy == [entries |-> <<>>, frozen |-> FALSE, items |-> <<>>, kind |-> "falsy"]

Undefined ==
    [entries |-> <<>>, frozen |-> FALSE, items |-> <<>>, kind |-> "undefined"]

NoHandler == "undefined"

NoError == "none"

\* the keys of an object's own properties
Keys(entries) == {entries[i].key : i \in 1..Len(entries)}

\* destructuring with a default: an absent (undefined) prop takes the default
Get(bag, name, default) == IF name \in DOMAIN bag THEN bag[name] ELSE default

(***************************************************************************)
(* StyleSheet.create({...}) at the end of the file.                        *)
(***************************************************************************)
styles ==
    [button |-> Obj(<<Entry("width", "100%")>>, FALSE),
     buttonContent |-> Obj(<<Entry("width", "100%"), Entry("height", "100%")>>, FALSE),
     buttonText |-> Obj(<<Entry("color", "#000000"),
                          Entry("textShadowColor", "#000000")>>, FALSE),
     innerButton |-> Obj(<<Entry("flexDirection", "row"),
                           Entry("alignItems", "center"),
                           Entry("justifyContent", "center")>>, FALSE),
     maskContainer |-> Obj(<<Entry("width", "100%"), Entry("height", "100%"),
                             Entry("borderRadius", "60"), Entry("padding", "10%")>>,
                           FALSE)]

(***************************************************************************)
(* Prop validation.                                                        *)
(***************************************************************************)
TextRequired == "GradientButton: text prop is required"

ColorsRequired ==
    "GradientButton: colors prop is required and must be an array of at least 2 colors"

ColorMustBeString(index) ==
    "GradientButton: colors[" \o ToString(index) \o "] must be a string"

DeleteTypeError == "TypeError: Cannot delete property of a frozen object"

\* !text
TextMissing(bag) == "text" \notin DOMAIN bag \/ bag["text"] = ""

\* !colors || !Array.isArray(colors) || colors.length < 2
ColorsInvalid(bag) ==
    \/ "colors" \notin DOMAIN bag
    \/ ~bag["colors"].isArray
    \/ Len(bag["colors"].items) < 2

\* colors.forEach: the 1-based position of the first element that is not a
\* string, 0 when every element is one
FirstNonString(items) ==
    IF \E i \in 1..Len(items) : items[i].type # "string"
    THEN CHOOSE i \in 1..Len(items) :
            /\ items[i].type # "string"
            /\ \A j \in 1..(i - 1) : items[j].type = "string"
    ELSE 0

ValidateProps(bag) ==
    IF TextMissing(bag) THEN TextRequired
    ELSE IF ColorsInvalid(bag) THEN ColorsRequired
    ELSE IF FirstNonString(bag["colors"].items) # 0
         THEN ColorMustBeString(FirstNonString(bag["colors"].items) - 1)
    ELSE NoError

(***************************************************************************)
(* Validation of the textStyle color properties.                           *)
(***************************************************************************)
restrictedTextProps == <<"color", "textDecorationColor", "textShadowColor">>

TextStyleWarning(prop) == [of |-> "textStyle", prop |-> prop]

\* prop in textStyleObj: an own property of a plain object; an array has the
\* index keys and length only
In(prop, value) == value.kind = "object" /\ prop \in Keys(value.entries)

\* delete textStyleObj[prop] on an object that is not frozen
Delete(value, prop) ==
    [value EXCEPT !.entries = SelectSeq(value.entries, LAMBDA e : e.key # prop)]

\* restrictedTextProps.forEach from position i on.  The module is strict code
\* (an ES module), so delete on a frozen object throws a TypeError, after the
\* warning has been printed.
RECURSIVE ValidateTextStyleFrom(_, _, _)
ValidateTextStyleFrom(i, value, warns) ==
    IF i > Len(restrictedTextProps)
    THEN [textStyle |-> value, thrown |-> NoError, warnings |-> warns]
    ELSE LET prop == restrictedTextProps[i]
         IN  IF In(prop, value)
             THEN IF value.frozen
                  THEN [textStyle |-> value,
                        thrown |-> DeleteTypeError,
                        warnings |-> Append(warns, TextStyleWarning(prop))]
                  ELSE ValidateTextStyleFrom(i + 1, Delete(value, prop),
                                             Append(warns, TextStyleWarning(prop)))
             ELSE ValidateTextStyleFrom(i + 1, value, warns)

\* if (textStyle && typeof textStyle === 'object') { ... }
ValidateTextStyle(value) ==
    IF value.kind \in {"object", "array"}
    THEN ValidateTextStyleFrom(1, value, <<>>)
    ELSE [textStyle |-> value, thrown |-> NoError, warnings |-> <<>>]

(***************************************************************************)
(* splitStyle.                                                             *)
(***************************************************************************)
RejectedKeys == {"backgroundColor", "borderColor", "shadowColor", "color"}

OuterKeys ==
    {"width", "height", "margin", "marginTop", "marginBottom", "marginLeft",
     "marginRight", "marginHorizontal", "marginVertical", "padding",
     "paddingTop", "paddingBottom", "paddingLeft", "paddingRight",
     "paddingHorizontal", "paddingVertical"}

StyleWarning(key) == [of |-> "style", prop |-> key]

\* Object.entries(styleObj).forEach from position i on
RECURSIVE SplitFrom(_, _, _)
SplitFrom(i, entries, acc) ==
    IF i > Len(entries) THEN acc
    ELSE LET e == entries[i]
         IN  IF e.key \in RejectedKeys
             THEN SplitFrom(i + 1, entries,
                     [acc EXCEPT !.warnings = Append(@, StyleWarning(e.key))])
             ELSE IF e.key \in OuterKeys
             THEN SplitFrom(i + 1, entries,
                     [acc EXCEPT !.outerStyle = Append(@, e)])
             ELSE SplitFrom(i + 1, entries,
                     [acc EXCEPT !.innerStyle = Append(@, e)])

\* style && typeof style === 'object' && !Array.isArray(style)
splitStyle(style) ==
    IF style.kind = "object"
    THEN SplitFrom(1, style.entries,
                   [innerStyle |-> <<>>, outerStyle |-> <<>>, warnings |-> <<>>])
    ELSE [innerStyle |-> <<>>, outerStyle |-> <<>>, warnings |-> <<>>]

(***************************************************************************)
(* The element tree: the outer View, the attributes of the touchable, the  *)
(* style list of the mask container View, its child and the colors of the *)
(* gradient.  The wrappers with fixed attributes (the buttonContent View, *)
(* MaskedView) and the geometry props of LinearGradient are left out.     *)
(***************************************************************************)
\* the names the parameter list destructures; ...touchableProps is the rest
Destructured ==
    {"text", "colors", "onPress", "style", "textStyle", "loading",
     "loadingColor", "loadingSize", "start", "end", "locations", "useAngle",
     "angle", "angleCenter", "disabled", "activeOpacity", "accessibilityRole",
     "accessibilityLabel", "accessibilityHint"}

touchableProps(bag) == [k \in (DOMAIN bag \ Destructured) |-> bag[k]]

\* JSX attributes in source order: a later attribute replaces an earlier one
Spread(earlier, later) ==
    [k \in (DOMAIN earlier \cup DOMAIN later) |->
        IF k \in DOMAIN later THEN later[k] ELSE earlier[k]]

\* disabled={disabled || loading}
TouchableDisabledIgnoringLoading(disabled, loading) == disabled

TouchableDisabled(disabled, loading) == disabled \/ loading

\* accessibilityLabel={accessibilityLabel || text}
AccessibilityLabel(bag) ==
    IF Get(bag, "accessibilityLabel", "") # ""
    THEN bag["accessibilityLabel"] ELSE bag["text"]

\* the attributes of <TouchableOpacity ...>
TouchableOpacity(bag) ==
    Spread(Spread([accessibilityHint |-> Get(bag, "accessibilityHint", "undefined"),
                   accessibilityLabel |-> AccessibilityLabel(bag),
                   accessibilityRole |-> Get(bag, "accessibilityRole", "button"),
                   activeOpacity |-> Get(bag, "activeOpacity", "0.7"),
                   disabled |-> TouchableDisabled(Get(bag, "disabled", FALSE),
                                                  Get(bag, "loading", FALSE)),
                   onPress |-> Get(bag, "onPress", NoHandler)],
                  touchableProps(bag)),
           [style |-> styles.button])

\* {loading ? <ActivityIndicator .../> : <Text style={[...]}>{text}</Text>}
MaskChild(bag, textStyle) ==
    IF Get(bag, "loading", FALSE)
    THEN [color |-> Get(bag, "loadingColor", "#FFFFFF"),
          size |-> Get(bag, "loadingSize", "small"),
          style |-> <<>>, text |-> "", type |-> "ActivityIndicator"]
    ELSE [color |-> "", size |-> "",
          style |-> <<styles.buttonText, textStyle>>, text |-> bag["text"],
          type |-> "Text"]

NoTree ==
    [child |-> <<>>, gradientColors |-> <<>>, maskStyle |-> <<>>,
     outerStyle |-> <<>>, touchable |-> <<>>, type |-> "none"]

ViewTree(bag, textStyle, split) ==
    [child |-> MaskChild(bag, textStyle),
     gradientColors |-> bag["colors"].items,
     maskStyle |-> <<styles.maskContainer, Obj(split.innerStyle, FALSE)>>,
     outerStyle |-> split.outerStyle,
     touchable |-> TouchableOpacity(bag),
     type |-> "View"]

\* the caller's bag after the render: textStyle is the caller's own object
WithTextStyle(bag, textStyle) ==
    IF "textStyle" \in DOMAIN bag
    THEN [bag EXCEPT !["textStyle"] = textStyle]
    ELSE bag

(***************************************************************************)
(* One call of the component: what it returns or throws, what it prints   *)
(* and what it leaves in the caller's objects.                             *)
(***************************************************************************)
GradientButton(bag) ==
    IF ValidateProps(bag) # NoError
    THEN [props |-> bag, thrown |-> ValidateProps(bag), tree |-> NoTree,
          warnings |-> <<>>]
    ELSE LET checked == ValidateTextStyle(Get(bag, "textStyle", Undefined))
             split == splitStyle(Get(bag, "style", Undefined))
         IN  IF checked.thrown # NoError
             THEN [props |-> WithTextStyle(bag, checked.textStyle),
                   thrown |-> checked.thrown,
                   tree |-> NoTree,
                   warnings |-> checked.warnings]
             ELSE [props |-> WithTextStyle(bag, checked.textStyle),
                   thrown |-> NoError,
                   tree |-> ViewTree(bag, checked.textStyle, split),
                   warnings |-> checked.warnings \o split.warnings]

(***************************************************************************)
(* The property bags the caller passes.                                    *)
(***************************************************************************)
\* sequences of at most n elements of pool
SeqsUpTo(pool, n) == UNION {[1..k -> pool] : k \in 0..n}

\* an object literal has each key once
DistinctKeys(entries) ==
    \A i, j \in 1..Len(entries) : entries[i].key = entries[j].key => i = j

ObjectsOver(pool, n) == {es \in SeqsUpTo(pool, n) : DistinctKeys(es)}

\* a prop the caller may leave out
Optional(name, values) == {<<>>} \cup {name :> v : v \in values}

StyleEntries ==
    {Entry("backgroundColor", "red"), Entry("borderColor", "blue"),
     Entry("shadowColor", "black"), Entry("color", "red"),
     Entry("width", "80%"), Entry("borderRadius", "10")}

StyleArrayItems ==
    {Obj(es, FALSE) :
        es \in ObjectsOver({Entry("backgroundColor", "red"), Entry("width", "80%"),
                            Entry("borderRadius", "8")}, 1)}

StyleInputs ==
    {Falsy}
    \cup {Obj(es, FALSE) : es \in ObjectsOver(StyleEntries, MaxProps)}
    \cup {Arr(items) : items \in SeqsUpTo(StyleArrayItems, MaxArr)}

TextStyleEntries ==
    {Entry("color", "red"), Entry("textDecorationColor", "blue"),
     Entry("textShadowColor", "black"), Entry("fontSize", "18")}

TextStyleArrayItems ==
    {Obj(es, FALSE) :
        es \in ObjectsOver({Entry("color", "red"), Entry("fontSize", "18")}, 1)}

TextStyleInputs ==
    {Falsy}
    \cup {Obj(es, f) : es \in ObjectsOver(TextStyleEntries, MaxProps), f \in BOOLEAN}
    \cup {Arr(items) : items \in SeqsUpTo(TextStyleArrayItems, MaxArr)}

ColorItems == {[type |-> "string", val |-> "red"], [type |-> "number", val |-> "7"]}

ColorsInputs ==
    {[isArray |-> FALSE, items |-> <<>>]}
    \cup {[isArray |-> TRUE, items |-> items] : items \in SeqsUpTo(ColorItems, MaxColors)}

ValidBag ==
    [colors |-> [isArray |-> TRUE,
                 items |-> <<[type |-> "string", val |-> "red"],
                             [type |-> "string", val |-> "red"]>>],
     text |-> "Go"]

\* the style prop varies
StyleBags ==
    {s @@ o @@ ValidBag :
        s \in Optional("style", StyleInputs), o \in Optional("onPress", {"h1"})}

\* the textStyle prop varies, with and without the loading indicator
TextStyleBags ==
    {t @@ l @@ ValidBag :
        t \in Optional("textStyle", TextStyleInputs),
        l \in Optional("loading", {TRUE})}

\* text and colors vary, beside a textStyle the validation would touch
ValidationBags ==
    {x @@ c @@ t :
        x \in Optional("text", {"", "Go"}),
        c \in Optional("colors", ColorsInputs),
        t \in Optional("textStyle", {Obj(<<Entry("color", "red")>>, f) : f \in BOOLEAN})}

\* the props of the touchable vary, with props that only the rest collects
TouchBags ==
    {d @@ l @@ o @@ a @@ r1 @@ r2 @@ ValidBag :
        d \in Optional("disabled", BOOLEAN),
        l \in Optional("loading", BOOLEAN),
        o \in Optional("onPress", {"h1", "h2"}),
        a \in Optional("accessibilityLabel", {"Send"}),
        r1 \in Optional("testID", {"btn"}),
        r2 \in Optional("onLongPress", {"h3"})}

PropertyBags == StyleBags \cup TextStyleBags \cup ValidationBags \cup TouchBags

(***************************************************************************)
(* The state machine: the parent renders the component with a property    *)
(* bag, renders it again with the same bag, and the user presses the      *)
(* touchable of the tree on screen.                                        *)
(***************************************************************************)
Init ==
    /\ props = <<>>
    /\ given = <<>>
    /\ rendered = FALSE
    /\ tree = NoTree
    /\ warnings = <<>>
    /\ thrown = NoError
    /\ pressed = FALSE
    /\ invoked = NoHandler

\* one call of GradientButton with the bag as the caller holds it; r is what
\* the call returned, threw, printed and left in the caller's objects
Call(bag) ==
    \E r \in {GradientButton(bag)} :
        /\ given' = bag
        /\ rendered' = TRUE
        /\ props' = r.props
        /\ tree' = r.tree
        /\ warnings' = r.warnings
        /\ thrown' = r.thrown
        /\ pressed' = FALSE
        /\ invoked' = NoHandler

\* the parent renders the component with a new property bag
Render == \E bag \in PropertyBags : Call(bag)

\* the parent renders again with the same property bag: the same objects,
\* as the previous render left them
Rerender ==
    /\ rendered
    /\ Call(props)

\* the user presses the touchable: a disabled TouchableOpacity, or one with
\* no onPress, invokes nothing
Press ==
    /\ tree.type = "View"
    /\ pressed' = TRUE
    /\ invoked' = IF tree.touchable.disabled THEN NoHandler
                  ELSE tree.touchable.onPress
    /\ UNCHANGED <<props, given, rendered, tree, warnings, thrown>>

Next == Render \/ Rerender \/ Press

Spec == Init /\ [][Next]_vars

(***************************************************************************)
(* Properties.                                                             *)
(***************************************************************************)
\* the properties a caller's style value carries: those of the object, or of
\* every object of the array
CallerEntries(value) ==
    IF value.kind = "object"
    THEN {value.entries[i] : i \in 1..Len(value.entries)}
    ELSE UNION {{value.items[n].entries[i] : i \in 1..Len(value.items[n].entries)} :
                    n \in 1..Len(value.items)}

CallerKeys(value) == {e.key : e \in CallerEntries(value)}

\* how many times the latest render printed warning w
WarningCount(w) == Cardinality({i \in 1..Len(warnings) : warnings[i] = w})

\* the keys of every style of a style list
ListKeys(list) == UNION {CallerKeys(list[i]) : i \in 1..Len(list)}

\* C1: whenever a render returns a tree, none of backgroundColor,
\* borderColor and shadowColor is in the style of the outer View or of the
\* mask container View, and the render printed exactly one warning for each
\* of the three that the caller's style (an object or an array of objects)
\* carries, and none for the others.
C1_StyleColorsIgnoredWithWarning ==
    tree.type = "View" =>
        \A p \in {"backgroundColor", "borderColor", "shadowColor"} :
            /\ p \notin Keys(tree.outerStyle)
            /\ p \notin ListKeys(tree.maskStyle)
            /\ WarningCount(StyleWarning(p)) =
                 IF p \in CallerKeys(Get(given, "style", Undefined)) THEN 1 ELSE 0

\* C2: whenever a render returns a tree, the caller's entry of the style list
\* of the Text element carries none of color, textDecorationColor and
\* textShadowColor, and the render printed exactly one warning for each of
\* the three that the caller's textStyle (an object or an array of objects)
\* carried, and none for the others.
C2_TextColorsIgnoredWithWarning ==
    tree.type = "View" =>
        \A i \in 1..Len(restrictedTextProps) :
            /\ tree.child.type = "Text" =>
                 restrictedTextProps[i] \notin CallerKeys(tree.child.style[2])
            /\ WarningCount(TextStyleWarning(restrictedTextProps[i])) =
                 IF restrictedTextProps[i]
                        \in CallerKeys(Get(given, "textStyle", Undefined))
                 THEN 1 ELSE 0

\* C3: a render throws exactly when text is missing or empty, or colors is
\* not an array of at least 2 elements, or some element of colors is not a
\* string; the error is the one of the first of these checks that fails, the
\* element check naming the first index that is not a string; a render that
\* throws nothing returns a tree.
C3_ThrowsExactlyOnInvalidProps ==
    rendered =>
        LET textBad == TextMissing(given)
            colorsBad == ColorsInvalid(given)
            elemBad == ~colorsBad /\ FirstNonString(given["colors"].items) # 0
        IN  /\ thrown # NoError <=> (textBad \/ colorsBad \/ elemBad)
            /\ textBad => thrown = TextRequired
            /\ (~textBad /\ colorsBad) => thrown = ColorsRequired
            /\ (~textBad /\ ~colorsBad /\ elemBad) =>
                 thrown = ColorMustBeString(FirstNonString(given["colors"].items) - 1)
            /\ thrown = NoError => tree.type = "View"

\* C4: a render leaves the caller's property bag as the caller handed it
\* over, and rendering the same bag once more gives the same tree, the same
\* warnings in the same order and the same error.
C4_RenderIsPure ==
    [][/\ props' = given'
       /\ Rerender => (tree' = tree /\ warnings' = warnings /\ thrown' = thrown)]_vars

\* C5: in every state with a tree on screen, the touchable is disabled
\* exactly when the latest render was given disabled = true or loading =
\* true, its onPress is the handler that render was given whatever else the
\* bag holds, and a press since that render invoked that handler, or nothing
\* when the render was given disabled or loading.
C5_DisabledExactlyWhenDisabledOrLoading ==
    tree.type = "View" =>
        LET off == Get(given, "disabled", FALSE) \/ Get(given, "loading", FALSE)
        IN  /\ tree.touchable.disabled = off
            /\ tree.touchable.onPress = Get(given, "onPress", NoHandler)
            /\ DOMAIN touchableProps(given) \cap {"disabled", "onPress"} = {}
            /\ pressed =>
                 invoked = IF off THEN NoHandler ELSE Get(given, "onPress", NoHandler)
            /\ ~pressed => invoked = NoHandler

\* C5 happens: the touchable was pressed while the latest render had loading
\* = true and disabled unset, with an onPress handler and a prop that only
\* the rest collects, and nothing was invoked.
C5_PressedWhileLoading ==
    /\ pressed
    /\ tree.type = "View"
    /\ Get(given, "loading", FALSE)
    /\ "disabled" \notin DOMAIN given
    /\ Get(given, "onPress", NoHandler) = "h1"
    /\ "onLongPress" \in DOMAIN touchableProps(given)
    /\ tree.touchable.onLongPress = "h3"
    /\ invoked = NoHandler

\* C6: whenever a render returns a tree, outerStyle and innerStyle have
\* disjoint key sets, each key once; together they hold exactly the caller's
\* properties (of the object, or of the objects of the array) whose key is
\* not rejected, each with the caller's value; outerStyle holds the keys of
\* the fixed list and innerStyle the others; an undefined style gives two
\* empty objects.
C6_SplitStyleClassifiesEveryProperty ==
    tree.type = "View" =>
        LET style == Get(given, "style", Undefined)
            outer == tree.outerStyle
            inner == tree.maskStyle[2].entries
        IN  /\ Keys(outer) \cap Keys(inner) = {}
            /\ Len(outer) = Cardinality(Keys(outer))
            /\ Len(inner) = Cardinality(Keys(inner))
            /\ {outer[i] : i \in 1..Len(outer)} \cup {inner[i] : i \in 1..Len(inner)}
                 = {e \in CallerEntries(style) : e.key \notin RejectedKeys}
            /\ Keys(outer) \subseteq OuterKeys
            /\ Keys(inner) \cap OuterKeys = {}
            /\ style.kind = "undefined" => (outer = <<>> /\ inner = <<>>)

====
